---------------------------- MODULE Spec2Model ----------------------------
(***************************************************************************)
(* Model of the /api/exams endpoint of Mock_Exam (src/main.go):            *)
(* serveExamFiles and readExamFiles, the filepath.Walk callback that       *)
(* groups the .json/.jsonc files of the "json" directory by the base name  *)
(* of their parent directory, and the conversion of the grouping map to    *)
(* the slice that is encoded as the response.                              *)
(*                                                                         *)
(* Paths and names are sequences of one-character strings, so that         *)
(* filepath.Ext, filepath.Dir and filepath.Base are computed on the text   *)
(* of the path as the library computes them.  File contents are short      *)
(* token sequences; the two parsers accept or reject them by their shape.  *)
(***************************************************************************)
EXTENDS Integers, Sequences, FiniteSets, TLC

\* The most files a tree holds (chosen among the candidate files below).
MaxFiles == 3

\* The most files a tree holds when several requests run at once.
MaxConcFiles == 2

\* The requests that can be in flight (handled in parallel by net/http).
Requests == {1, 2}

---------------------------------------------------------------------------
(* The file tree under the working directory.                              *)

\* Entries 1..6 are directories and always exist; 7..11 are the candidate
\* files, each of which a tree holds or not.
PathOf ==
  <<
    \* 1: json
    <<"j", "s", "o", "n">>,
    \* 2: json/m
    <<"j", "s", "o", "n", "/", "m">>,
    \* 3: json/s
    <<"j", "s", "o", "n", "/", "s">>,
    \* 4: json/s/f.json  (a directory named like a JSON file)
    <<"j", "s", "o", "n", "/", "s", "/", "f", ".", "j", "s", "o", "n">>,
    \* 5: json/x
    <<"j", "s", "o", "n", "/", "x">>,
    \* 6: json/x/m  (a second directory whose base name is m)
    <<"j", "s", "o", "n", "/", "x", "/", "m">>,
    \* 7: json/m/a.json
    <<"j", "s", "o", "n", "/", "m", "/", "a", ".", "j", "s", "o", "n">>,
    \* 8: json/m/b.jsonc
    <<"j", "s", "o", "n", "/", "m", "/", "b", ".", "j", "s", "o", "n", "c">>,
    \* 9: json/m/e.JSON
    <<"j", "s", "o", "n", "/", "m", "/", "e", ".", "J", "S", "O", "N">>,
    \* 10: json/s/c.json
    <<"j", "s", "o", "n", "/", "s", "/", "c", ".", "j", "s", "o", "n">>,
    \* 11: json/x/m/d.json
    <<"j", "s", "o", "n", "/", "x", "/", "m", "/", "d", ".", "j", "s", "o", "n">>
  >>

DirIds == 1..6
FileIds == 7..11
EntryIds == DirIds \cup FileIds

\* The root that readExamFiles walks: filepath.Walk("json", ...).
Root == 1

\* os.FileInfo.IsDir of an entry.
IsDir(e) == e \in DirIds

\* What a candidate file is: absent, or present with this content.
\*   empty       zero bytes
\*   json        strict JSON
\*   jsonc       JSON with a comment (valid for the relaxed parser only)
\*   bad         malformed for both parsers
\*   unreadable  os.ReadFile fails on it
FileKinds == {"absent", "empty", "json", "jsonc", "bad", "unreadable"}

\* The bytes of a file: tokens standing for its text.  The number written in
\* a file is its entry id, so no two files hold the same value.
FileBytes(kind, e) ==
  CASE kind = "json"  -> <<"{", "q", ":", ToString(e), "}">>
    [] kind = "jsonc" -> <<"{", "q", ":", ToString(e), "/*c*/", "}">>
    [] kind = "bad"   -> <<"{", "q", ":">>
    [] OTHER          -> <<>>

---------------------------------------------------------------------------
(* path/filepath                                                           *)

\* The characters of the paths in byte order ('.' < '/' < 'A'.. < 'a'..).
Alphabet ==
  <<".", "/", "J", "N", "O", "S", "a", "b", "c", "d", "e", "f", "j", "m",
    "n", "o", "r", "s", "x">>

CharCode(c) == CHOOSE i \in 1..Len(Alphabet) : Alphabet[i] = c

\* Go's string comparison a < b (byte-wise lexicographic).
RECURSIVE StrLess(_, _)
StrLess(a, b) ==
  IF b = <<>> THEN FALSE
  ELSE IF a = <<>> THEN TRUE
  ELSE IF Head(a) = Head(b) THEN StrLess(Tail(a), Tail(b))
  ELSE CharCode(Head(a)) < CharCode(Head(b))

\* Index of the last path separator of p, 0 when there is none.
LastSlash(p) ==
  LET S == {i \in 1..Len(p) : p[i] = "/"}
  IN  IF S = {} THEN 0 ELSE CHOOSE i \in S : \A k \in S : k <= i

\* filepath.Ext: the suffix beginning at the final dot of the last element
\* of p, empty when that element has no dot.
Ext(p) ==
  LET D == {i \in (LastSlash(p) + 1)..Len(p) : p[i] = "."}
  IN  IF D = {} THEN <<>>
      ELSE SubSeq(p, CHOOSE i \in D : \A k \in D : k <= i, Len(p))

\* filepath.Dir of a clean path: all but the last element.
Dir(p) ==
  LET i == LastSlash(p)
  IN  IF i = 0 THEN <<".">>
      ELSE IF i = 1 THEN <<"/">>
      ELSE SubSeq(p, 1, i - 1)

\* filepath.Base of a clean path: the last element.
Base(p) ==
  IF p = <<>> THEN <<".">> ELSE SubSeq(p, LastSlash(p) + 1, Len(p))

DotJson == <<".", "j", "s", "o", "n">>
DotJsonc == <<".", "j", "s", "o", "n", "c">>

\* The entries of the set present that are directly in directory d.
Children(d, present) ==
  {e \in present : Dir(PathOf[e]) = PathOf[d]}

\* The entries of S by name in ascending order (readDirNames sorts).
RECURSIVE SortByName(_)
SortByName(S) ==
  IF S = {} THEN <<>>
  ELSE LET m == CHOOSE e \in S :
                 \A o \in S \ {e} : StrLess(Base(PathOf[e]), Base(PathOf[o]))
       IN  <<m>> \o SortByName(S \ {m})

\* The order in which filepath.Walk hands the entries to its callback: a
\* directory, then its children by name, each child's subtree before the
\* next child.
RECURSIVE WalkFrom(_, _)
RECURSIVE WalkAll(_, _)
WalkFrom(e, present) ==
  IF IsDir(e) THEN <<e>> \o WalkAll(SortByName(Children(e, present)), present)
  ELSE <<e>>
WalkAll(es, present) ==
  IF es = <<>> THEN <<>>
  ELSE WalkFrom(Head(es), present) \o WalkAll(Tail(es), present)


---------------------------------------------------------------------------
(* encoding/json and go-jsonc, on the token sequences of FileBytes.        *)

Digits == {ToString(e) : e \in EntryIds}

\* json.Unmarshal(content, &parsedContent): the value of a well-formed
\* document ({"q": n} is modelled as <<"q", n>>), or an error.
JsonUnmarshal(content) ==
  IF /\ Len(content) = 5
     /\ content[1] = "{" /\ content[2] = "q" /\ content[3] = ":"
     /\ content[4] \in Digits /\ content[5] = "}"
  THEN [ok |-> TRUE, value |-> <<content[2], content[4]>>]
  ELSE [ok |-> FALSE, value |-> <<>>]

IsComment(tok) == tok = "/*c*/"

\* jsonc.Unmarshal: the comments are removed, then the strict parser runs.
JsoncUnmarshal(content) ==
  JsonUnmarshal(SelectSeq(content, LAMBDA tok : ~IsComment(tok)))

---------------------------------------------------------------------------
(* State.                                                                  *)

VARIABLES
  files,        \* the kind of each candidate file (the tree's content)
  walkErrAt,    \* the entry whose lstat or directory read fails, 0 if none
  walk,         \* the order in which filepath.Walk visits the tree
  active,       \* the requests that are served
  pc,           \* each request's position in serveExamFiles
  idx,          \* each request's walk: the number of entries visited
  subjectsMap,  \* each request's grouping map (readExamFiles' local)
  err,          \* each request's error returned by the walk
  subjects,     \* each request's slice returned by readExamFiles
  resp          \* each request's http.ResponseWriter

vars ==
  <<files, walkErrAt, walk, active, pc, idx, subjectsMap, err, subjects, resp>>

\* The candidate files a tree holds.
Present == {f \in FileIds : files[f] # "absent"}

\* Go's nil error and the errors the walk can return.
NoErr == [kind |-> "nil", at |-> 0]
MkErr(kind, e) == [kind |-> kind, at |-> e]

\* err.Error(): the text of an error, as a sequence of strings.
ErrorText(e) ==
  CASE e.kind = "walk" ->
         <<"lstat ">> \o PathOf[e.at] \o <<": no such file or directory">>
    [] e.kind = "read" ->
         <<"failed to read file ">> \o PathOf[e.at] \o <<": ", "open failed">>
    [] e.kind = "parseJSON" ->
         <<"failed to parse JSON in file ">> \o PathOf[e.at]
           \o <<": ", "syntax error">>
    [] e.kind = "parseJSONC" ->
         <<"failed to parse JSONC in file ">> \o PathOf[e.at]
           \o <<": ", "syntax error">>
    [] OTHER -> <<>>

\* A nil slice, and append on slices ([]Subject).
NilSlice == [isNil |-> TRUE, items |-> <<>>]
AppendSlice(s, x) == [isNil |-> FALSE, items |-> Append(s.items, x)]

\* make(map[string][]ExamFile) and m[k], which is nil (no element) when
\* the map has no key k.
EmptyMap == [k \in {} |-> <<>>]
MapGet(m, k) == IF k \in DOMAIN m THEN m[k] ELSE <<>>

\* The ExamFile built from an accepted file.
ExamFile(name, content) == [Name |-> name, Content |-> content]

\* A fresh http.ResponseWriter: nothing set, nothing written.
NoResp ==
  [status |-> 0, contentType |-> "", kind |-> "none",
   text |-> <<>>, items |-> <<>>]

---------------------------------------------------------------------------
(* readExamFiles: the callback given to filepath.Walk.                     *)

\* Mutant of Matches: the extension is compared without regard to case.
MatchesAnyCase(e) ==
  LET ext == Ext(PathOf[e])
  IN  ~IsDir(e) /\ (ext = DotJson \/ ext = DotJsonc
                      \/ ext = <<".", "J", "S", "O", "N">>)

\* The test that selects the entries to read: a file, not a directory,
\* whose extension is .json or .jsonc.
Matches(e) ==
  LET ext == Ext(PathOf[e])
  IN  ~IsDir(e) /\ (ext = DotJson \/ ext = DotJsonc)

\* Mutant of SubjectName: the whole directory path is the key.
SubjectNameFullDir(path) == Dir(path)

\* subjectName: the base name of the directory that holds the file.
SubjectName(path) == Base(Dir(path))

\* Mutant of SkipEmpty: an empty file is handed to the parser.
SkipNothing(content) == FALSE

\* The test that skips a file: it has no content.
SkipEmpty(content) == Len(content) = 0

\* The parser chosen by the extension, applied to the content.
Parse(ext, content) ==
  IF ext = DotJsonc THEN JsoncUnmarshal(content) ELSE JsonUnmarshal(content)

\* Mutant of MapAppend: the new entry replaces the entries of the subject.
MapOverwrite(m, k, x) ==
  [j \in DOMAIN m \cup {k} |-> IF j = k THEN <<x>> ELSE m[j]]

\* Mutant of MapAppend: the new entry is put before the others.
MapPrepend(m, k, x) ==
  [j \in DOMAIN m \cup {k} |-> IF j = k THEN <<x>> \o MapGet(m, k) ELSE m[j]]

\* subjectsMap[subjectName] = append(subjectsMap[subjectName], examFile)
MapAppend(m, k, x) ==
  [j \in DOMAIN m \cup {k} |-> IF j = k THEN Append(MapGet(m, k), x) ELSE m[j]]

\* One call of the callback on entry e with the grouping map m: the map it
\* leaves and the error it returns.
WalkFn(m, e) ==
  IF walkErrAt = e THEN [map |-> m, err |-> MkErr("walk", e)]
  ELSE IF ~Matches(e) THEN [map |-> m, err |-> NoErr]
  ELSE IF files[e] = "unreadable" THEN [map |-> m, err |-> MkErr("read", e)]
  ELSE
    LET path    == PathOf[e]
        ext     == Ext(path)
        content == FileBytes(files[e], e)
        parsed  == Parse(ext, content)
    IN  IF SkipEmpty(content) THEN [map |-> m, err |-> NoErr]
        ELSE IF ~parsed.ok THEN
          [map |-> m,
           err |-> MkErr(IF ext = DotJsonc THEN "parseJSONC" ELSE "parseJSON", e)]
        ELSE
          [map |-> MapAppend(m, SubjectName(path),
                             ExamFile(Base(path), parsed.value)),
           err |-> NoErr]

\* The orders in which a range over map m can yield its keys: Go leaves the
\* iteration order of a map unspecified and randomises it.
RangeOrders(m) ==
  LET K == DOMAIN m
      n == Cardinality(K)
  IN  {o \in [1..n -> K] : \A i, j \in 1..n : i # j => o[i] # o[j]}

\* The loop that converts the map to a slice, for the key order it is given.
RECURSIVE ConvertLoop(_, _, _)
ConvertLoop(acc, m, order) ==
  IF order = <<>> THEN acc
  ELSE ConvertLoop(AppendSlice(acc, [Name |-> Head(order), Exams |-> m[Head(order)]]),
                   m, Tail(order))

\* Mutant of ReturnValue: what was grouped is returned beside the error.
ReturnValuePartial(m, walkErr, order) == ConvertLoop(NilSlice, m, order)

\* What readExamFiles returns when the walk returned walkErr.
ReturnValue(m, walkErr, order) ==
  IF walkErr # NoErr THEN NilSlice ELSE ConvertLoop(NilSlice, m, order)

---------------------------------------------------------------------------
(* serveExamFiles: the response.                                           *)

\* json.NewEncoder(w).Encode(subjects): a nil slice is written as null, any
\* other slice as an array of objects with the fields of the json tags.
EncodeExams(exams) ==
  [i \in 1..Len(exams) |-> [name |-> exams[i].Name, content |-> exams[i].Content]]

Encode(w, s) ==
  [w EXCEPT !.status = 200,
            !.kind = IF s.isNil THEN "null" ELSE "array",
            !.items = [i \in 1..Len(s.items) |->
                         [name |-> s.items[i].Name,
                          exams |-> EncodeExams(s.items[i].Exams)]]]

\* Mutant of HttpError: the content type set before is left in place.
HttpErrorKeepsType(w, msg, code) ==
  [w EXCEPT !.status = code, !.kind = "text", !.text = msg]

\* http.Error(w, msg, code): replaces the content type, writes the status and
\* the message.
HttpError(w, msg, code) ==
  [w EXCEPT !.contentType = "text/plain; charset=utf-8",
            !.status = code,
            !.kind = "text",
            !.text = msg]

ReadFailedPrefix == "Failed to read exam files: "

---------------------------------------------------------------------------
(* Actions.                                                                *)

\* A request arrives: serveExamFiles sets the content type and calls
\* readExamFiles, which makes its map and starts the walk.
Serve(r) ==
  /\ pc[r] \in {"idle", "done"}
  /\ pc' = [pc EXCEPT ![r] = "walk"]
  /\ resp' = [resp EXCEPT ![r] = [NoResp EXCEPT !.contentType = "application/json"]]
  /\ subjectsMap' = [subjectsMap EXCEPT ![r] = EmptyMap]
  /\ idx' = [idx EXCEPT ![r] = 0]
  /\ err' = [err EXCEPT ![r] = NoErr]
  /\ subjects' = [subjects EXCEPT ![r] = NilSlice]
  /\ UNCHANGED <<files, walkErrAt, walk, active>>

\* Mutant of Visit: the grouping map is one map shared by all requests.
VisitSharedMap(r) ==
  /\ pc[r] = "walk"
  /\ err[r] = NoErr
  /\ idx[r] < Len(walk)
  /\ LET res == WalkFn(subjectsMap[r], walk[idx[r] + 1])
     IN  /\ subjectsMap' = [q \in Requests |-> res.map]
         /\ err' = [err EXCEPT ![r] = res.err]
  /\ idx' = [idx EXCEPT ![r] = idx[r] + 1]
  /\ UNCHANGED <<files, walkErrAt, walk, active, pc, subjects, resp>>

\* filepath.Walk calls the callback on the next entry.
Visit(r) ==
  /\ pc[r] = "walk"
  /\ err[r] = NoErr
  /\ idx[r] < Len(walk)
  /\ LET res == WalkFn(subjectsMap[r], walk[idx[r] + 1])
     IN  /\ subjectsMap' = [subjectsMap EXCEPT ![r] = res.map]
         /\ err' = [err EXCEPT ![r] = res.err]
  /\ idx' = [idx EXCEPT ![r] = idx[r] + 1]
  /\ UNCHANGED <<files, walkErrAt, walk, active, pc, subjects, resp>>

\* filepath.Walk returns (the tree is exhausted or the callback returned an
\* error) and readExamFiles returns its slice and error.
Return(r) ==
  /\ pc[r] = "walk"
  /\ err[r] # NoErr \/ idx[r] = Len(walk)
  /\ \E order \in RangeOrders(subjectsMap[r]) :
       subjects' = [subjects EXCEPT ![r] = ReturnValue(subjectsMap[r], err[r], order)]
  /\ pc' = [pc EXCEPT ![r] = "returned"]
  /\ UNCHANGED <<files, walkErrAt, walk, active, idx, subjectsMap, err, resp>>

\* serveExamFiles answers: the error, or the encoded slice.  The values to
\* encode come from Unmarshal, which json can always encode, and the writer
\* is taken to accept what is written, so Encode returns no error.
Respond(r) ==
  /\ pc[r] = "returned"
  /\ resp' = [resp EXCEPT ![r] =
       IF err[r] # NoErr
       THEN HttpError(resp[r], <<ReadFailedPrefix>> \o ErrorText(err[r]), 500)
       ELSE Encode(resp[r], subjects[r])]
  /\ pc' = [pc EXCEPT ![r] = "done"]
  /\ UNCHANGED <<files, walkErrAt, walk, active, idx, subjectsMap, err, subjects>>

Next ==
  \/ \E r \in active : Serve(r)
  \/ \E r \in active : Visit(r)
  \/ \E r \in active : Return(r)
  \/ \E r \in active : Respond(r)

\* The trees: at most n of the candidate files.
Trees(n) ==
  {f \in [FileIds -> FileKinds] :
     Cardinality({e \in FileIds : f[e] # "absent"}) <= n}

\* The walk itself fails on at most one entry: a directory of ds that cannot
\* be listed (for the root: that does not exist), or a file that cannot be
\* examined, which cannot be read either.
InitTree(n, rs, ds) ==
  /\ files \in Trees(n)
  /\ walkErrAt \in {0} \cup ds \cup {f \in FileIds : files[f] = "unreadable"}
  /\ walk = WalkFrom(Root, DirIds \cup Present)
  /\ active = rs
  /\ pc = [r \in Requests |-> "idle"]
  /\ idx = [r \in Requests |-> 0]
  /\ subjectsMap = [r \in Requests |-> EmptyMap]
  /\ err = [r \in Requests |-> NoErr]
  /\ subjects = [r \in Requests |-> NilSlice]
  /\ resp = [r \in Requests |-> NoResp]

\* One request at a time; the directories that may fail are json and json/x.
Init == InitTree(MaxFiles, {1}, {Root, 5})

Spec == Init /\ [][Next]_vars

\* Several requests in flight over the same tree, whose directories can all
\* be listed.
InitConc == InitTree(MaxConcFiles, Requests, {})

SpecConc == InitConc /\ [][Next]_vars

---------------------------------------------------------------------------
(* The vocabulary of the properties, stated on the tree and not on the     *)
(* callback.                                                               *)

\* The position at which the walk visits entry e.
Pos(e) == CHOOSE i \in 1..Len(walk) : walk[i] = e

\* A regular file of the tree whose extension is .json or .jsonc.
Matching(e) ==
  e \in Present /\ (Ext(PathOf[e]) = DotJson \/ Ext(PathOf[e]) = DotJsonc)

\* The content of file e parses under the grammar of its extension.
WellFormed(e) ==
  files[e] = "json" \/ (files[e] = "jsonc" /\ Ext(PathOf[e]) = DotJsonc)

\* A zero-length matching file.
EmptyFile(e) == Matching(e) /\ files[e] = "empty"

\* A matching, non-empty, well-formed file: one that yields an entry.
Accepted(e) == Matching(e) /\ WellFormed(e)

\* An entry that makes the walk fail: the walk cannot examine it, or it is a
\* matching file that cannot be read or is non-empty and does not parse.
Failing(e) ==
  \/ walkErrAt = e
  \/ Matching(e) /\ files[e] # "empty" /\ ~WellFormed(e)

FailPositions == {i \in 1..Len(walk) : Failing(walk[i])}
FirstFail == CHOOSE i \in FailPositions : \A k \in FailPositions : i <= k

\* The ExamEntry that file e yields.
EntryOf(e) == [Name |-> Base(PathOf[e]), Content |-> <<"q", ToString(e)>>]

\* readExamFiles has returned to request r / has returned without error.
Finished(r) == pc[r] \in {"returned", "done"}
Succeeded(r) == Finished(r) /\ err[r] = NoErr

\* The Subjects returned to request r.
Result(r) == subjects[r].items

\* Subject S holds the entry of file e.
Holds(S, e) == \E j \in 1..Len(S.Exams) : S.Exams[j] = EntryOf(e)

\* The places of the result of r at which the entry of file e stands.
Places(r, e) ==
  {ij \in (1..Len(Result(r))) \X (1..Len(walk)) :
     /\ ij[2] <= Len(Result(r)[ij[1]].Exams)
     /\ Result(r)[ij[1]].Exams[ij[2]] = EntryOf(e)}

\* The position of the first visited file among those Subject S holds.
FirstVisit(S) ==
  LET P == {Pos(e) : e \in {f \in FileIds : Accepted(f) /\ Holds(S, f)}}
  IN  CHOOSE i \in P : \A k \in P : i <= k

RECURSIVE TotalEntries(_)
TotalEntries(ss) ==
  IF ss = <<>> THEN 0 ELSE Len(Head(ss).Exams) + TotalEntries(Tail(ss))

\* The names of the entries collected so far by request r.
CollectedNames(r) ==
  {subjectsMap[r][kj[1]][kj[2]].Name :
     kj \in {x \in (DOMAIN subjectsMap[r]) \X (1..Len(walk)) :
               x[2] <= Len(subjectsMap[r][x[1]])}}

---------------------------------------------------------------------------
(* Properties.                                                             *)

\* C1: when readExamFiles succeeds, the Subjects it returns stand in
\* first-seen order: a Subject precedes another exactly when its first
\* accepted file was visited before the other's first accepted file.
C1_FirstSeenOrder ==
  \A r \in active :
    Succeeded(r) =>
      \A i, j \in 1..Len(Result(r)) :
        i < j <=> FirstVisit(Result(r)[i]) < FirstVisit(Result(r)[j])

\* C2 (as stated): two accepted files stand in the same Subject if and only
\* if they have the same parent directory.
C2_SameSubjectIffSameDir ==
  \A r \in active :
    Succeeded(r) =>
      \A e, f \in {x \in FileIds : Accepted(x)} :
        (\E i \in 1..Len(Result(r)) : Holds(Result(r)[i], e) /\ Holds(Result(r)[i], f))
          <=> Dir(PathOf[e]) = Dir(PathOf[f])

\* C2 (amended): two accepted files stand in the same Subject if and only if
\* their parent directories have the same base name; that Subject is named
\* with the base name, and the result has one Subject per distinct base name
\* of a parent directory of an accepted file.
C2_SameSubjectIffSameDirName ==
  \A r \in active :
    Succeeded(r) =>
      LET A == {x \in FileIds : Accepted(x)}
      IN  /\ \A e, f \in A :
               (\E i \in 1..Len(Result(r)) :
                   Holds(Result(r)[i], e) /\ Holds(Result(r)[i], f))
                 <=> Base(Dir(PathOf[e])) = Base(Dir(PathOf[f]))
          /\ \A e \in A : \A i \in 1..Len(Result(r)) :
               Holds(Result(r)[i], e) => Result(r)[i].Name = Base(Dir(PathOf[e]))
          /\ Len(Result(r)) = Cardinality({Base(Dir(PathOf[e])) : e \in A})

\* A run has succeeded in which two files of different directories with the
\* same base name (json/m and json/x/m) stand in one Subject.
C2_Witness ==
  \E r \in active :
    /\ Succeeded(r)
    /\ Accepted(7) /\ Accepted(11)
    /\ \E i \in 1..Len(Result(r)) : Holds(Result(r)[i], 7) /\ Holds(Result(r)[i], 11)

\* C3: if an entry cannot be examined, or a matching file cannot be read or
\* is non-empty and does not parse, readExamFiles returns an error and a nil
\* slice whatever was grouped before, nothing after the first such entry is
\* visited, and the response carries no Subject.
C3_ErrorFailsWhole ==
  \A r \in active :
    FailPositions # {} =>
      /\ idx[r] <= FirstFail
      /\ Finished(r) =>
           /\ err[r] # NoErr
           /\ err[r].at = walk[FirstFail]
           /\ idx[r] = FirstFail
           /\ subjects[r] = NilSlice
      /\ pc[r] = "done" =>
           /\ resp[r].status = 500
           /\ resp[r].items = <<>>
           /\ resp[r].kind = "text"

\* A request has failed after it had grouped a well-formed file.
C3_Witness ==
  \E r \in active :
    /\ pc[r] = "done"
    /\ err[r] # NoErr
    /\ DOMAIN subjectsMap[r] # {}

\* C4: on a tree of well-formed files only, the entries of all Subjects are
\* as many as the matching non-empty files, and each such file has its entry,
\* named by its base name, at exactly one place of the result.
AllWellFormed ==
  /\ walkErrAt = 0
  /\ \A e \in FileIds : Matching(e) => (files[e] = "empty" \/ WellFormed(e))

C4_EntryCount ==
  \A r \in active :
    (AllWellFormed /\ Finished(r)) =>
      LET N == {e \in FileIds : Matching(e) /\ files[e] # "empty"}
      IN  /\ err[r] = NoErr
          /\ TotalEntries(Result(r)) = Cardinality(N)
          /\ \A e \in N : Cardinality(Places(r, e)) = 1

\* A run over three well-formed files, two of them in one Subject.
C4_Witness ==
  \E r \in active :
    /\ AllWellFormed /\ Finished(r)
    /\ Cardinality({e \in FileIds : Accepted(e)}) = 3
    /\ Len(Result(r)) = 2

\* C5: a zero-length matching file yields no entry and no error, the walk
\* goes on after it, and when the walk succeeds every accepted file, also
\* one visited after an empty file, has its entry in the result.
C5_EmptySkipped ==
  \A r \in active :
    /\ \A k \in 1..idx[r] :
         EmptyFile(walk[k]) =>
           /\ err[r].at # walk[k]
           /\ Base(PathOf[walk[k]]) \notin CollectedNames(r)
           /\ (k = idx[r] => err[r] = NoErr)
    /\ Succeeded(r) =>
         /\ idx[r] = Len(walk)
         /\ \A e \in FileIds : Accepted(e) => Places(r, e) # {}
         /\ \A e \in FileIds : EmptyFile(e) => Places(r, e) = {}

\* A run has succeeded that visited an empty file and an accepted file
\* after it.
C5_Witness ==
  \E r \in active :
    /\ Succeeded(r)
    /\ \E e, f \in FileIds :
         EmptyFile(e) /\ Accepted(f) /\ Pos(e) < Pos(f) /\ Places(r, f) # {}

\* C6: a directory, whatever its name, and a file whose extension is not
\* exactly .json or .jsonc are never represented by an entry, and their
\* content is never the cause of an error: the only error such an entry can
\* cause is the walk's own failure to examine it.
NotSelected(e) ==
  IsDir(e) \/ ~(Ext(PathOf[e]) = DotJson \/ Ext(PathOf[e]) = DotJsonc)

C6_OnlyJsonFiles ==
  \A r \in active :
    \A e \in DirIds \cup Present :
      NotSelected(e) =>
        /\ Base(PathOf[e]) \notin CollectedNames(r)
        /\ \A i \in 1..Len(Result(r)) : \A j \in 1..Len(Result(r)[i].Exams) :
             Result(r)[i].Exams[j].Name # Base(PathOf[e])
        /\ (err[r] # NoErr /\ err[r].at = e) => (err[r].kind = "walk" /\ walkErrAt = e)
        /\ (walkErrAt # e /\ idx[r] > 0 /\ walk[idx[r]] = e) => err[r] = NoErr

\* A request was answered 200 over a tree that holds json/m/e.JSON with
\* malformed or unreadable content (and the directory json/s/f.json).
C6_Witness ==
  \E r \in active :
    /\ pc[r] = "done" /\ resp[r].status = 200
    /\ files[9] \in {"bad", "unreadable"}
    /\ \E e \in FileIds : Accepted(e)


\* The file whose entry x is.
FileOf(x) == CHOOSE e \in FileIds : EntryOf(e) = x

\* The entries of sequence xs stand in the order in which the walk visits
\* their files.
InWalkOrder(xs) ==
  \A i, j \in 1..Len(xs) : i < j => Pos(FileOf(xs[i])) < Pos(FileOf(xs[j]))

\* Sequence a is the beginning of sequence b.
IsPrefix(a, b) == Len(a) <= Len(b) /\ SubSeq(b, 1, Len(a)) = a

\* C7: within each Subject the entries stand in the order in which the walk
\* visited their files, in the map while it is built and in the result; and
\* a step of the walk only appends: every bucket keeps the entries it had,
\* in place.
C7_TraversalOrder ==
  /\ [](\A r \in active :
          /\ \A k \in DOMAIN subjectsMap[r] : InWalkOrder(subjectsMap[r][k])
          /\ \A i \in 1..Len(Result(r)) :
               /\ InWalkOrder(Result(r)[i].Exams)
               /\ Result(r)[i].Exams = subjectsMap[r][Result(r)[i].Name])
  /\ [][\A r \in active :
          (pc[r] = "walk" /\ pc'[r] # "idle") =>
            \A k \in DOMAIN subjectsMap[r] :
              /\ k \in DOMAIN subjectsMap'[r]
              /\ IsPrefix(subjectsMap[r][k], subjectsMap'[r][k])]_vars

\* A walk has put three files in one Subject, the last of them from another
\* directory than the first.
C7_Witness ==
  \E r \in active :
    \E k \in DOMAIN subjectsMap[r] :
      /\ Len(subjectsMap[r][k]) = 3
      /\ subjectsMap[r][k][1] = EntryOf(7)
      /\ subjectsMap[r][k][3] = EntryOf(11)

\* C8: over a tree with no matching non-empty file the request is answered
\* 200 with the empty array as body.
C8_EmptyResultIsArray ==
  \A r \in active :
    (/\ pc[r] = "done"
     /\ walkErrAt = 0
     /\ \A e \in FileIds : Matching(e) => files[e] = "empty") =>
      /\ err[r] = NoErr
      /\ resp[r].status = 200
      /\ resp[r].kind = "array"
      /\ resp[r].items = <<>>

\* The body written for request r holds the Subjects returned to it: as many
\* objects, each with the name and the entries of its Subject.
BodyIsResult(r) ==
  /\ resp[r].kind = (IF subjects[r].isNil THEN "null" ELSE "array")
  /\ Len(resp[r].items) = Len(Result(r))
  /\ \A i \in 1..Len(Result(r)) :
       /\ resp[r].items[i].name = Result(r)[i].Name
       /\ Len(resp[r].items[i].exams) = Len(Result(r)[i].Exams)
       /\ \A j \in 1..Len(Result(r)[i].Exams) :
            /\ resp[r].items[i].exams[j].name = Result(r)[i].Exams[j].Name
            /\ resp[r].items[i].exams[j].content = Result(r)[i].Exams[j].Content

AloneGroup(n, k) ==
  LET fs == SelectSeq(SubSeq(walk, 1, n),
                      LAMBDA e : Accepted(e) /\ Base(Dir(PathOf[e])) = k)
  IN  [i \in 1..Len(fs) |-> EntryOf(fs[i])]

AloneMap(n) ==
  [k \in {Base(Dir(PathOf[walk[i]])) : i \in {j \in 1..n : Accepted(walk[j])}}
     |-> AloneGroup(n, k)]

\* C10: whatever the interleaving, each request in flight holds exactly what
\* a call that runs alone holds at the same point of its walk, fails exactly
\* where that call fails, and returns and writes the Subjects of that call's
\* grouping (in some order of the map's keys).
C10_Isolated ==
  \A r \in active :
    /\ subjectsMap[r] = AloneMap(idx[r])
    /\ err[r] # NoErr <=> idx[r] \in FailPositions
    /\ FailPositions # {} => idx[r] <= FirstFail
    /\ Finished(r) =>
         /\ err[r] # NoErr \/ idx[r] = Len(walk)
         /\ IF err[r] # NoErr THEN subjects[r] = NilSlice
            ELSE /\ Len(Result(r)) = Cardinality(DOMAIN AloneMap(Len(walk)))
                 /\ \A i \in 1..Len(Result(r)) :
                      /\ Result(r)[i].Name \in DOMAIN AloneMap(Len(walk))
                      /\ Result(r)[i].Exams = AloneMap(Len(walk))[Result(r)[i].Name]
                 /\ \A i, j \in 1..Len(Result(r)) :
                      i # j => Result(r)[i].Name # Result(r)[j].Name
    /\ pc[r] = "done" =>
         /\ resp[r].status = (IF err[r] # NoErr THEN 500 ELSE 200)
         /\ Len(resp[r].items) = Len(Result(r))
         /\ \A i \in 1..Len(Result(r)) :
              /\ resp[r].items[i].name = Result(r)[i].Name
              /\ Len(resp[r].items[i].exams) = Len(Result(r)[i].Exams)

\* Two requests are in their walks at different entries, each with a
\* grouping of its own.
C10_Witness ==
  /\ active = Requests
  /\ pc[1] = "walk" /\ pc[2] = "walk"
  /\ idx[1] # idx[2]
  /\ DOMAIN subjectsMap[1] # {} /\ DOMAIN subjectsMap[2] # {}
  /\ subjectsMap[1] # subjectsMap[2]

=============================================================================
